---- MODULE Spec2Model ----
(***************************************************************************)
(* Model of the rule engine of @tnnquang/eslint-plugin (src/lib/index.js): *)
(* the no-namespace-import, no-arrow-components and enforce-path-alias     *)
(* rules, each as the visitor state machine that ESLint drives over one    *)
(* file.                                                                   *)
(*                                                                         *)
(* A file is the sequence of the AST nodes the host hands to the visitors, *)
(* in traversal order.  Identifier names are strings; where the code looks *)
(* inside a string (a regular expression, the default sort order) the      *)
(* model works on the string's UTF-16 code units.                          *)
(***************************************************************************)
EXTENDS Integers, Sequences, FiniteSets, TLC

VARIABLES
    rule,            \* which rule instance create() built for this file
    options,         \* context.options[0]
    filename,        \* context.getFilename()
    file,            \* the nodes visited so far, in traversal order
    phase,           \* "traverse", "exited" (Program:exit ran), "fixed" (re-linted),
                     \* "crashed" (a visitor threw)
    defaultImports,  \* no-namespace-import: Map libraryName -> [import info]
    reports,         \* what context.report received, in order
    fixedFile,       \* the file after the host applied every fix of the pass
    reports2,        \* what context.report received on the re-lint of fixedFile
    fs               \* enforce-path-alias: the project files create() reads

vars == <<rule, options, filename, file, phase, defaultImports, reports,
          fixedFile, reports2, fs>>

----------------------------------------------------------------------------
(* Bounds of the model *)

MaxNodes == 3          \* nodes per file, specification Spec
MaxAccesses == 4       \* member accesses per file, specification SpecProps
MaxDeclarators == 2    \* declarators per file, specification SpecArrow

----------------------------------------------------------------------------
(* Strings *)

\* The UTF-16 code units of the strings the model uses.
CodeUnits(s) ==
    CASE s = "FC"                              -> <<70, 67>>
      [] s = "map"                             -> <<109, 97, 112>>
      [] s = "memo"                            -> <<109, 101, 109, 111>>
      [] s = "use"                             -> <<117, 115, 101>>
      [] s = "Foo"                             -> <<70, 111, 111>>
      [] s = "foo"                             -> <<102, 111, 111>>
      [] s = "F_o"                             -> <<70, 95, 111>>
      [] s = "a.js"                            -> <<97, 46, 106, 115>>
      [] s = "a.ts"                            -> <<97, 46, 116, 115>>
      [] s = "a.tsx"                           -> <<97, 46, 116, 115, 120>>
      [] s = "ts.js"                           -> <<116, 115, 46, 106, 115>>
      [] s = "/proj"                           -> <<47, 112, 114, 111, 106>>
      [] s = "/proj/src/components/Button.tsx" ->
            <<47, 112, 114, 111, 106, 47, 115, 114, 99, 47, 99, 111, 109,
              112, 111, 110, 101, 110, 116, 115, 47, 66, 117, 116, 116, 111,
              110, 46, 116, 115, 120>>
      [] s = "/proj/src/types.d.ts"            ->
            <<47, 112, 114, 111, 106, 47, 115, 114, 99, 47, 116, 121, 112,
              101, 115, 46, 100, 46, 116, 115>>
      [] s = "/proj/src/notes.md"              ->
            <<47, 112, 114, 111, 106, 47, 115, 114, 99, 47, 110, 111, 116,
              101, 115, 46, 109, 100>>
      [] s = "../utils/helpers"                ->
            <<46, 46, 47, 117, 116, 105, 108, 115, 47, 104, 101, 108, 112,
              101, 114, 115>>
      [] s = "../utils/deep/helpers"           ->
            <<46, 46, 47, 117, 116, 105, 108, 115, 47, 100, 101, 101, 112,
              47, 104, 101, 108, 112, 101, 114, 115>>
      [] s = "./Icon"                          -> <<46, 47, 73, 99, 111, 110>>
      [] s = "../config"                       ->
            <<46, 46, 47, 99, 111, 110, 102, 105, 103>>
      [] s = "../../lib/x"                     ->
            <<46, 46, 47, 46, 46, 47, 108, 105, 98, 47, 120>>
      [] s = "../../src-old/x"                 ->
            <<46, 46, 47, 46, 46, 47, 115, 114, 99, 45, 111, 108, 100, 47,
              120>>
      [] s = "@/utils/helpers"                 ->
            <<64, 47, 117, 116, 105, 108, 115, 47, 104, 101, 108, 112, 101,
              114, 115>>
      [] s = "react"                           -> <<114, 101, 97, 99, 116>>
      [] s = "@/*"                             -> <<64, 47, 42>>
      [] s = "@components/*"                   ->
            <<64, 99, 111, 109, 112, 111, 110, 101, 110, 116, 115, 47, 42>>
      [] s = "./*"                             -> <<46, 47, 42>>
      [] s = "./src/*"                         ->
            <<46, 47, 115, 114, 99, 47, 42>>
      [] s = "./components/*"                  ->
            <<46, 47, 99, 111, 109, 112, 111, 110, 101, 110, 116, 115, 47,
              42>>
      [] s = "./src"                           -> <<46, 47, 115, 114, 99>>
      [] s = "."                               -> <<46>>
      [] s = "src"                             -> <<115, 114, 99>>
      [] s = "lib"                             -> <<108, 105, 98>>
      [] s = "app"                             -> <<97, 112, 112>>
      [] s = "src/utils"                       ->
            <<115, 114, 99, 47, 117, 116, 105, 108, 115>>
      [] s = "./utils/*"                       ->
            <<46, 47, 117, 116, 105, 108, 115, 47, 42>>
      [] s = "~"                               -> <<126>>
      [] s = "@components"                     ->
            <<64, 99, 111, 109, 112, 111, 110, 101, 110, 116, 115>>
      [] s = "./components"                    ->
            <<46, 47, 99, 111, 109, 112, 111, 110, 101, 110, 116, 115>>
      [] s = "@components/Icon"                ->
            <<64, 99, 111, 109, 112, 111, 110, 101, 110, 116, 115, 47, 73,
              99, 111, 110>>
      [] s = "@/Icon"                          -> <<64, 47, 73, 99, 111, 110>>
      [] s = "@/components/Icon"               ->
            <<64, 47, 99, 111, 109, 112, 111, 110, 101, 110, 116, 115, 47,
              73, 99, 111, 110>>

\* a < b in the order of Array.prototype.sort() without a comparator:
\* code unit by code unit, a proper prefix first.
RECURSIVE UnitsLess(_, _)
UnitsLess(a, b) ==
    IF b = <<>> THEN FALSE
    ELSE IF a = <<>> THEN TRUE
    ELSE IF Head(a) # Head(b) THEN Head(a) < Head(b)
    ELSE UnitsLess(Tail(a), Tail(b))

StringLess(a, b) == UnitsLess(CodeUnits(a), CodeUnits(b))

EndsWith(units, suffix) ==
    /\ Len(units) >= Len(suffix)
    /\ SubSeq(units, Len(units) - Len(suffix) + 1, Len(units)) = suffix

Range(seq) == {seq[i] : i \in 1..Len(seq)}

\* Array.prototype.join on strings.
RECURSIVE Join(_, _)
Join(arr, sep) ==
    IF arr = <<>> THEN ""
    ELSE IF Len(arr) = 1 THEN arr[1]
    ELSE arr[1] \o sep \o Join(Tail(arr), sep)

\* Array.prototype.slice(0, n).
Slice0(arr, n) == SubSeq(arr, 1, IF Len(arr) < n THEN Len(arr) ELSE n)

\* A JS Set is its elements in insertion order: Set.prototype.add.
SetAdd(set, x) == IF x \in Range(set) THEN set ELSE Append(set, x)

\* new Set(iterable).
RECURSIVE NewSet(_)
NewSet(arr) ==
    IF arr = <<>> THEN <<>>
    ELSE SetAdd(NewSet(SubSeq(arr, 1, Len(arr) - 1)), arr[Len(arr)])

\* Array.prototype.sort() on strings: insertion into the sorted prefix.
RECURSIVE InsertSorted(_, _)
InsertSorted(sorted, x) ==
    IF sorted = <<>> THEN <<x>>
    ELSE IF StringLess(x, Head(sorted)) THEN <<x>> \o sorted
    ELSE <<Head(sorted)>> \o InsertSorted(Tail(sorted), x)

\* Sort without the sort: the array as it is.
SortOmitted(arr) == arr

RECURSIVE Sort(_)
Sort(arr) ==
    IF arr = <<>> THEN <<>>
    ELSE InsertSorted(Sort(SubSeq(arr, 1, Len(arr) - 1)), arr[Len(arr)])

----------------------------------------------------------------------------
(* create(): what both rules derive from the context *)

\* /\.(ts|tsx)$/.test(filename)
isTypeScript ==
    \/ EndsWith(CodeUnits(filename), <<46, 116, 115>>)
    \/ EndsWith(CodeUnits(filename), <<46, 116, 115, 120>>)

----------------------------------------------------------------------------
(* no-namespace-import: meta and create() *)

\* meta without fixable.
fixableOmitted == "none"

\* meta.fixable: the host applies the fixes of a rule only if it is set.
fixable == "code"

allowedLibraries == options.allowedLibraries
targetLibraries == options.targetLibraries
shouldCheckAllLibraries == targetLibraries = {}
checkTypeScriptTypes == options.checkTypeScriptTypes # FALSE
allowTypeNamespaces == options.allowTypeNamespaces

\* shouldCheckLibrary with the target list consulted before the allow list.
shouldCheckLibraryTargetFirst(libraryName) ==
    IF libraryName \in targetLibraries THEN TRUE
    ELSE shouldCheckAllLibraries /\ libraryName \notin allowedLibraries

shouldCheckLibrary(libraryName) ==
    IF libraryName \in allowedLibraries THEN FALSE
    ELSE shouldCheckAllLibraries \/ libraryName \in targetLibraries

\* A JS Map is its entries [key, value] in insertion order.
MapHas(map, key) == \E e \in 1..Len(map) : map[e].key = key
MapIndex(map, key) == CHOOSE e \in 1..Len(map) : map[e].key = key
MapSet(map, key, value) ==
    IF MapHas(map, key)
    THEN [map EXCEPT ![MapIndex(map, key)].value = value]
    ELSE Append(map, [key |-> key, value |-> value])

\* node.specifiers.find((s) => s.type === "ImportDefaultSpecifier")
HasDefaultSpecifier(node) ==
    \E k \in 1..Len(node.specifiers) :
        node.specifiers[k].type = "ImportDefaultSpecifier"
DefaultSpecifier(node) ==
    node.specifiers[CHOOSE k \in 1..Len(node.specifiers) :
        /\ node.specifiers[k].type = "ImportDefaultSpecifier"
        /\ \A j \in 1..(k - 1) :
              node.specifiers[j].type # "ImportDefaultSpecifier"]

\* isTypeOnlyImport of the ImportDeclaration visitor.
isTypeOnlyImport(node) ==
    isTypeScript /\ checkTypeScriptTypes /\ node.importKind = "type"

\* OnImportDeclaration recording the import as already used as a namespace.
OnImportDeclarationMarkedUsed(imports, node, idx) ==
    LET libraryName == node.source IN
    IF ~shouldCheckLibrary(libraryName) THEN imports
    ELSE IF ~HasDefaultSpecifier(node) THEN imports
    ELSE IF isTypeOnlyImport(node) /\ allowTypeNamespaces THEN imports
    ELSE
        LET old == IF MapHas(imports, libraryName)
                   THEN imports[MapIndex(imports, libraryName)].value
                   ELSE <<>>
            info == [node |-> idx,
                     localName |-> DefaultSpecifier(node).name,
                     libraryName |-> libraryName,
                     isUsedAsNamespace |-> TRUE,
                     namespacedProperties |-> <<>>,
                     isTypeImport |-> isTypeOnlyImport(node)]
        IN  MapSet(imports, libraryName, Append(old, info))

\* The ImportDeclaration visitor on the node at position idx of the file:
\* the Map after it.
OnImportDeclaration(imports, node, idx) ==
    LET libraryName == node.source IN
    IF ~shouldCheckLibrary(libraryName) THEN imports
    ELSE IF ~HasDefaultSpecifier(node) THEN imports
    ELSE IF isTypeOnlyImport(node) /\ allowTypeNamespaces THEN imports
    ELSE
        LET old == IF MapHas(imports, libraryName)
                   THEN imports[MapIndex(imports, libraryName)].value
                   ELSE <<>>
            info == [node |-> idx,
                     localName |-> DefaultSpecifier(node).name,
                     libraryName |-> libraryName,
                     isUsedAsNamespace |-> FALSE,
                     namespacedProperties |-> <<>>,
                     isTypeImport |-> isTypeOnlyImport(node)]
        IN  MapSet(imports, libraryName, Append(old, info))

\* The guard of the MemberExpression visitor.
IsIdentifierAccess(node) ==
    node.objectType = "Identifier" /\ node.propertyType = "Identifier"

\* The entries of the Map holding an import whose localName is objectName.
MatchingEntries(imports, objectName) ==
    {e \in 1..Len(imports) :
        \E j \in 1..Len(imports[e].value) :
            imports[e].value[j].localName = objectName}

\* The loop of the MemberExpression visitor stops at the first such entry,
\* and imports.find takes the first such import of the entry.
FirstEntry(imports, objectName) ==
    CHOOSE e \in MatchingEntries(imports, objectName) :
        \A f \in MatchingEntries(imports, objectName) : e <= f
FirstImport(imports, e, objectName) ==
    CHOOSE j \in 1..Len(imports[e].value) :
        /\ imports[e].value[j].localName = objectName
        /\ \A i \in 1..(j - 1) : imports[e].value[i].localName # objectName

Matches(imports, node) ==
    IsIdentifierAccess(node) /\ MatchingEntries(imports, node.objectName) # {}

\* OnMemberExpressionImports without the add of the property name.
OnMemberExpressionImportsNoProperty(imports, node) ==
    IF ~Matches(imports, node) THEN imports
    ELSE
        LET e == FirstEntry(imports, node.objectName)
            j == FirstImport(imports, e, node.objectName)
        IN  [imports EXCEPT ![e].value[j].isUsedAsNamespace = TRUE]

\* The MemberExpression visitor: the Map after it.
OnMemberExpressionImports(imports, node) ==
    IF ~Matches(imports, node) THEN imports
    ELSE
        LET e == FirstEntry(imports, node.objectName)
            j == FirstImport(imports, e, node.objectName)
        IN  [imports EXCEPT
                ![e].value[j].isUsedAsNamespace = TRUE,
                ![e].value[j].namespacedProperties =
                    SetAdd(@, node.propertyName)]

\* The MemberExpression visitor: what it reports for the node at idx.
OnMemberExpressionReports(imports, node, idx) ==
    IF ~Matches(imports, node) THEN <<>>
    ELSE
        LET e == FirstEntry(imports, node.objectName)
            j == FirstImport(imports, e, node.objectName)
            defaultImport == imports[e].value[j]
        IN  <<[node |-> idx,
               messageId |-> IF defaultImport.isTypeImport
                             THEN "noTypeNamespaceUsage"
                             ELSE "noNamespaceUsage",
               data |-> [objectName |-> node.objectName,
                         propertyName |-> node.propertyName,
                         libraryName |-> imports[e].key],
               fix |-> [op |-> "replaceText", target |-> idx,
                        text |-> <<node.propertyName>>]]>>

\* propertiesString of Program:exit.
PropertiesString(imp) ==
    LET propertiesArray == imp.namespacedProperties IN
    Join(Slice0(propertiesArray, 3), ", ")
        \o (IF Len(propertiesArray) > 3 THEN ", ..." ELSE "")

\* s.imported.name of the specifiers of type ImportSpecifier, in order.
RECURSIVE ExistingNamedImportNames(_)
ExistingNamedImportNames(specifiers) ==
    IF specifiers = <<>> THEN <<>>
    ELSE (IF Head(specifiers).type = "ImportSpecifier"
          THEN <<Head(specifiers).name>> ELSE <<>>)
         \o ExistingNamedImportNames(Tail(specifiers))

\* The tokens of sortedNamedImports.join(", ").
RECURSIVE SpecifierTokens(_)
SpecifierTokens(names) ==
    IF names = <<>> THEN <<>>
    ELSE IF Len(names) = 1 THEN <<names[1]>>
    ELSE <<names[1], ",">> \o SpecifierTokens(Tail(names))

\* The fix of the summary report, computed on the import declaration node
\* `decl` that imp.node refers to.  A replacement text is its tokens.
SummaryFix(imp, decl, libraryName) ==
    LET existingNamedImportNames ==
            NewSet(ExistingNamedImportNames(decl.specifiers))
        allNeededNamedImports ==
            NewSet(existingNamedImportNames \o imp.namespacedProperties)
        sortedNamedImports == Sort(allNeededNamedImports)
        importPrefix == IF imp.isTypeImport THEN "import type" ELSE "import"
    IN  IF Len(allNeededNamedImports) = 0
        THEN [op |-> "remove", target |-> imp.node, text |-> <<>>]
        ELSE [op |-> "replaceText", target |-> imp.node,
              text |-> <<importPrefix, "{">>
                       \o SpecifierTokens(sortedNamedImports)
                       \o <<"}", "from", libraryName, ";">>]

\* The report of Program:exit for one import info, if any.
SummaryReports(imp, decl, libraryName) ==
    IF ~imp.isUsedAsNamespace THEN <<>>
    ELSE <<[node |-> imp.node,
            messageId |-> IF imp.isTypeImport
                          THEN "noDefaultTypeImportForNamespace"
                          ELSE "noDefaultImportForNamespace",
            data |-> [importName |-> imp.localName,
                      libraryName |-> libraryName,
                      properties |-> PropertiesString(imp)],
            fix |-> SummaryFix(imp, decl, libraryName)]>>

\* imports.forEach of Program:exit over one entry of the Map.
RECURSIVE EntryReports(_, _, _)
EntryReports(imps, nodes, libraryName) ==
    IF imps = <<>> THEN <<>>
    ELSE SummaryReports(Head(imps), nodes[Head(imps).node], libraryName)
         \o EntryReports(Tail(imps), nodes, libraryName)

\* Program:exit: the reports of all entries, in the Map's order.
RECURSIVE OnProgramExit(_, _)
OnProgramExit(imports, nodes) ==
    IF imports = <<>> THEN <<>>
    ELSE EntryReports(Head(imports).value, nodes, Head(imports).key)
         \o OnProgramExit(Tail(imports), nodes)

----------------------------------------------------------------------------
(* The host: the nodes it can hand to the visitors, the fixes it applies *)

Libraries == {"react", "lodash"}
LocalNames == {"React", "_"}

DefaultSpec(local) == [type |-> "ImportDefaultSpecifier", name |-> local]
NamedSpec(imported) == [type |-> "ImportSpecifier", name |-> imported]

ImportNode(source, importKind, specifiers) ==
    [type |-> "ImportDeclaration", source |-> source,
     importKind |-> importKind, specifiers |-> specifiers]

\* object.property; objectName and propertyName are the .name of an
\* Identifier, and "" where the child is not an Identifier.
MemberNode(objectType, objectName, propertyType, propertyName) ==
    [type |-> "MemberExpression",
     objectType |-> objectType, objectName |-> objectName,
     propertyType |-> propertyType, propertyName |-> propertyName]

\* Import declarations of specification Spec.
ImportNodes ==
    {ImportNode(l, k, <<DefaultSpec(n)>>) :
        l \in Libraries, k \in {"value", "type"}, n \in LocalNames}
    \cup {ImportNode("react", "value", <<NamedSpec("use")>>)}

\* Member expressions of specification Spec: React.map, _.FC, ...,
\* a.b.map (the object is a member expression) and React["map"].
MemberNodes ==
    {MemberNode("Identifier", o, "Identifier", p) :
        o \in LocalNames, p \in {"map", "FC"}}
    \cup {MemberNode("MemberExpression", "", "Identifier", "map"),
          MemberNode("Identifier", "React", "Literal", "")}

\* Import declarations of specification SpecProps.
ImportNodesP ==
    {ImportNode("react", k, <<DefaultSpec("React")>> \o named) :
        k \in {"value", "type"},
        named \in {<<>>, <<NamedSpec("use"), NamedSpec("FC")>>}}

\* Member expressions of specification SpecProps.
MemberNodesP ==
    {MemberNode("Identifier", "React", "Identifier", p) :
        p \in {"FC", "map", "memo", "use"}}
    \cup {MemberNode("Identifier", "_", "Identifier", "map")}

IsImport(node) == node.type = "ImportDeclaration"
IsMember(node) == node.type = "MemberExpression"

\* The names an import declaration binds in the module scope.  The parser
\* rejects a file that binds a name twice.
BoundNames(node) ==
    IF IsImport(node) THEN {node.specifiers[k].name : k \in 1..Len(node.specifiers)}
    ELSE {}
BoundInFile(nodes) == UNION {BoundNames(nodes[i]) : i \in 1..Len(nodes)}

MemberCount(nodes) == Cardinality({i \in 1..Len(nodes) : IsMember(nodes[i])})

\* The parser on a replacement text: the node it reads back.
RECURSIVE ParseSpecifiers(_)
ParseSpecifiers(tokens) ==
    IF tokens = <<>> \/ Head(tokens) = "}" THEN <<>>
    ELSE IF Head(tokens) = "," THEN ParseSpecifiers(Tail(tokens))
    ELSE <<NamedSpec(Head(tokens))>> \o ParseSpecifiers(Tail(tokens))

Parse(text) ==
    IF text[1] \in {"import", "import type"}
    THEN ImportNode(text[Len(text) - 1],
                    IF text[1] = "import type" THEN "type" ELSE "value",
                    ParseSpecifiers(SubSeq(text, 3, Len(text))))
    ELSE [type |-> "Identifier", name |-> text[1]]

\* eslint --fix: every fix of the pass applied to the original text (the
\* fixes of this rule never overlap: each targets a node of its own).
RECURSIVE ApplyFixes(_, _, _)
ApplyFixes(nodes, reps, i) ==
    IF i > Len(nodes) THEN <<>>
    ELSE
        LET fixes == {r \in 1..Len(reps) :
                        fixable = "code" /\ reps[r].fix.target = i}
            here == IF fixes = {} THEN <<nodes[i]>>
                    ELSE LET fix == reps[CHOOSE r \in fixes : TRUE].fix
                         IN  IF fix.op = "remove" THEN <<>>
                             ELSE <<Parse(fix.text)>>
        IN  here \o ApplyFixes(nodes, reps, i + 1)

\* One traversal of a whole file: the Map and the reports before Program:exit.
RECURSIVE Traverse(_, _)
Traverse(nodes, i) ==
    IF i = 0 THEN [imports |-> <<>>, reports |-> <<>>]
    ELSE
        LET before == Traverse(nodes, i - 1)
            node == nodes[i]
        IN  IF IsImport(node)
            THEN [before EXCEPT
                    !.imports = OnImportDeclaration(@, node, i)]
            ELSE IF IsMember(node)
            THEN [imports |-> OnMemberExpressionImports(before.imports, node),
                  reports |-> before.reports \o
                     OnMemberExpressionReports(before.imports, node, i)]
            ELSE before

\* Every report of linting a whole file.
Lint(nodes) ==
    LET end == Traverse(nodes, Len(nodes))
    IN  end.reports \o OnProgramExit(end.imports, nodes)

----------------------------------------------------------------------------
(* no-namespace-import: the rule instance on one file *)

NamespaceOptions ==
    [allowedLibraries : SUBSET {"react"},
     targetLibraries : SUBSET {"react"},
     checkTypeScriptTypes : BOOLEAN,
     allowTypeNamespaces : BOOLEAN]

DefaultNamespaceOptions ==
    [allowedLibraries |-> {}, targetLibraries |-> {},
     checkTypeScriptTypes |-> TRUE, allowTypeNamespaces |-> FALSE]

InitFile ==
    /\ file = <<>>
    /\ phase = "traverse"
    /\ defaultImports = <<>>
    /\ reports = <<>>
    /\ fixedFile = <<>>
    /\ reports2 = <<>>

Init ==
    /\ rule = "no-namespace-import"
    /\ options \in NamespaceOptions
    /\ filename \in {"a.js", "a.ts", "a.tsx"}
    /\ fs = <<>>
    /\ InitFile

InitProps ==
    /\ rule = "no-namespace-import"
    /\ options = DefaultNamespaceOptions
    /\ filename \in {"a.js", "a.tsx"}
    /\ fs = <<>>
    /\ InitFile

\* The host visits an import declaration.
ImportDeclaration(node) ==
    /\ phase = "traverse"
    /\ BoundNames(node) \cap BoundInFile(file) = {}
    /\ file' = Append(file, node)
    /\ defaultImports' = OnImportDeclaration(defaultImports, node, Len(file) + 1)
    /\ UNCHANGED <<fs, rule, options, filename, phase, reports, fixedFile, reports2>>

\* The host visits a member expression.
MemberExpression(node) ==
    /\ phase = "traverse"
    /\ file' = Append(file, node)
    /\ defaultImports' = OnMemberExpressionImports(defaultImports, node)
    /\ reports' = reports \o
          OnMemberExpressionReports(defaultImports, node, Len(file) + 1)
    /\ UNCHANGED <<fs, rule, options, filename, phase, fixedFile, reports2>>

\* The host ends the traversal.
ProgramExit ==
    /\ phase = "traverse"
    /\ phase' = "exited"
    /\ reports' = reports \o OnProgramExit(defaultImports, file)
    /\ UNCHANGED <<fs, rule, options, filename, file, defaultImports, fixedFile,
                   reports2>>

\* The host applies the fixes of the pass and lints the result with a fresh
\* rule instance.
FixAndRelint ==
    /\ phase = "exited"
    /\ phase' = "fixed"
    /\ fixedFile' = ApplyFixes(file, reports, 1)
    /\ reports2' = Lint(ApplyFixes(file, reports, 1))
    /\ UNCHANGED <<fs, rule, options, filename, file, defaultImports, reports>>

Next ==
    \/ \E node \in ImportNodes : Len(file) < MaxNodes /\ ImportDeclaration(node)
    \/ \E node \in MemberNodes : Len(file) < MaxNodes /\ MemberExpression(node)
    \/ ProgramExit
    \/ FixAndRelint

NextProps ==
    \/ \E node \in ImportNodesP : ImportDeclaration(node)
    \/ \E node \in MemberNodesP :
          MemberCount(file) < MaxAccesses /\ MemberExpression(node)
    \/ ProgramExit
    \/ FixAndRelint

Spec == Init /\ [][Next]_vars
SpecProps == InitProps /\ [][NextProps]_vars

----------------------------------------------------------------------------
(* Properties of no-namespace-import *)

Done == phase # "traverse"

\* The import infos of the Map.
ImportInfos ==
    UNION {Range(defaultImports[e].value) : e \in 1..Len(defaultImports)}

IsInline(r) == r.messageId \in {"noNamespaceUsage", "noTypeNamespaceUsage"}
IsSummary(r) ==
    r.messageId \in {"noDefaultImportForNamespace",
                     "noDefaultTypeImportForNamespace"}

\* The binding a report is about.
BindingOf(r) == IF IsInline(r) THEN r.data.objectName ELSE r.data.importName

\* The positions of the file where `name.prop` is written, after position from.
AccessSites(name, from) ==
    {i \in (from + 1)..Len(file) :
        /\ IsMember(file[i])
        /\ IsIdentifierAccess(file[i])
        /\ file[i].objectName = name}

\* The property names written at the sites, in the order of the file.
RECURSIVE PropsInOrder(_, _)
PropsInOrder(sites, upto) ==
    IF upto = 0 THEN <<>>
    ELSE PropsInOrder(sites, upto - 1)
         \o (IF upto \in sites THEN <<file[upto].propertyName>> ELSE <<>>)

\* The import declaration of the file whose default specifier binds name.
DeclarationOf(name) ==
    file[CHOOSE i \in 1..Len(file) :
            /\ IsImport(file[i])
            /\ HasDefaultSpecifier(file[i])
            /\ DefaultSpecifier(file[i]).name = name]

\* n inline reports and one summary for the n sites of a binding, the
\* summary listing the first three of the k distinct names, then ", ..."
\* iff k > 3.
ReportedPerSite(imp, sites) ==
    LET names == NewSet(PropsInOrder(sites, Len(file)))
        inline == {r \in 1..Len(reports) :
                      IsInline(reports[r]) /\ BindingOf(reports[r]) = imp.localName}
        summary == {r \in 1..Len(reports) :
                      IsSummary(reports[r]) /\ reports[r].node = imp.node}
    IN  /\ Cardinality(inline) = Cardinality(sites)
        /\ \A i \in sites :
              Cardinality({r \in inline : reports[r].node = i}) = 1
        /\ sites # {} =>
              /\ Cardinality(summary) = 1
              /\ \A r \in summary :
                    reports[r].data.properties =
                        Join(SubSeq(names, 1, IF Len(names) > 3 THEN 3 ELSE Len(names)), ", ")
                        \o (IF Len(names) > 3 THEN ", ..." ELSE "")

\* C1: at the end of the traversal, a recorded default import whose binding is
\* written as binding.prop at n sites of the file (k distinct names) has
\* exactly n inline reports, one per site, and exactly one summary report at
\* the import declaration whose property list is the first three distinct
\* names joined by ", ", followed by ", ..." iff k > 3.
C1_OnePerSiteAndOneSummary ==
    Done => \A imp \in ImportInfos :
                ReportedPerSite(imp, AccessSites(imp.localName, 0))

\* C2: the fix of a summary report replaces the import declaration by a
\* named import of the same module whose names are exactly the union of the
\* declaration's named imports and the property names observed on the
\* binding, each once, in sorted order; an empty union removes the declaration.
C2_FixIsSortedUnion ==
    Done => \A r \in 1..Len(reports) : IsSummary(reports[r]) =>
        LET rep == reports[r]
            decl == file[rep.node]
            existing == {decl.specifiers[k].name : k \in
                            {k \in 1..Len(decl.specifiers) :
                                decl.specifiers[k].type = "ImportSpecifier"}}
            observed == {file[i].propertyName :
                            i \in AccessSites(rep.data.importName, rep.node)}
        IN  /\ rep.fix.target = rep.node
            /\ IF existing \cup observed = {} THEN rep.fix.op = "remove"
               ELSE LET fixed == Parse(rep.fix.text)
                        names == [k \in 1..Len(fixed.specifiers) |->
                                     fixed.specifiers[k].name]
                    IN  /\ rep.fix.op = "replaceText"
                        /\ IsImport(fixed)
                        /\ fixed.source = decl.source
                        /\ \A k \in 1..Len(fixed.specifiers) :
                              fixed.specifiers[k].type = "ImportSpecifier"
                        /\ Range(names) = existing \cup observed
                        /\ \A a, b \in 1..Len(names) :
                              a < b => StringLess(names[a], names[b])

\* `import React, { use, FC }` with React.map then React.FC after it is
\* rewritten to `import { FC, map, use }`.
C2_Witness ==
    /\ Done
    /\ \E r \in 1..Len(reports) :
          /\ IsSummary(reports[r])
          /\ reports[r].data.properties = "map, FC"
          /\ Len(file[reports[r].node].specifiers) = 3
          /\ reports[r].fix.text =
                <<"import", "{", "FC", ",", "map", ",", "use", "}",
                  "from", "react", ";">>

\* C3: after every fix of the pass is applied, linting the result reports
\* nothing, inline or summary, about any default-import binding of the file.
C3_FixedFileIsClean ==
    phase = "fixed" =>
        \A i \in 1..Len(file) :
            IsImport(file[i]) /\ HasDefaultSpecifier(file[i]) =>
                \A r \in 1..Len(reports2) :
                    BindingOf(reports2[r]) # DefaultSpecifier(file[i]).name

\* A file with inline reports and a summary was fixed and linted again.
C3_Witness ==
    /\ phase = "fixed"
    /\ \E r \in 1..Len(reports) : IsInline(reports[r])
    /\ \E r \in 1..Len(reports) : IsSummary(reports[r])
    /\ fixedFile # file
    /\ \E i \in 1..Len(fixedFile) : fixedFile[i].type = "Identifier"

\* C4: nothing is recorded or reported for a module of allowedLibraries,
\* whether or not targetLibraries lists it too; nothing is recorded or
\* reported for a module absent from a non-empty targetLibraries, whatever
\* the type flags are; with targetLibraries empty, every default import of a
\* value from a module outside allowedLibraries is recorded.
C4_ExemptionPrecedence ==
    /\ \A lib \in Libraries :
          (\/ lib \in options.allowedLibraries
           \/ (options.targetLibraries # {} /\ lib \notin options.targetLibraries))
          => /\ \A imp \in ImportInfos : imp.libraryName # lib
             /\ \A r \in 1..Len(reports) : reports[r].data.libraryName # lib
    /\ options.targetLibraries = {} =>
          \A i \in 1..Len(file) :
              (/\ IsImport(file[i])
               /\ HasDefaultSpecifier(file[i])
               /\ file[i].importKind = "value"
               /\ file[i].source \notin options.allowedLibraries)
              => \E imp \in ImportInfos : imp.node = i

\* "react" is in both lists, imported by default and used as a namespace.
C4_Witness ==
    /\ Done
    /\ options.allowedLibraries = {"react"}
    /\ options.targetLibraries = {"react"}
    /\ Len(file) >= 2
    /\ file[1] = ImportNode("react", "value", <<DefaultSpec("React")>>)
    /\ file[2] = MemberNode("Identifier", "React", "Identifier", "map")

\* C5: a report about the binding of a type-only default import exists only
\* when checkTypeScriptTypes is true and allowTypeNamespaces is false.
C5_TypeImportReportedOnlyIfChecked ==
    \A r \in 1..Len(reports) :
        DeclarationOf(BindingOf(reports[r])).importKind = "type" =>
            (options.checkTypeScriptTypes /\ ~options.allowTypeNamespaces)

\* C6: every report about a type-only default import uses the type-specific
\* message, and the summary fix that rewrites it starts with `import type`.
C6_TypePhrasingKept ==
    \A r \in 1..Len(reports) :
        DeclarationOf(BindingOf(reports[r])).importKind = "type" =>
            /\ reports[r].messageId \in
                  {"noTypeNamespaceUsage", "noDefaultTypeImportForNamespace"}
            /\ (IsSummary(reports[r]) /\ reports[r].fix.op = "replaceText")
                  => reports[r].fix.text[1] = "import type"

----------------------------------------------------------------------------
(* no-arrow-components: create() *)

allowArrowFunctions == options.allowArrowFunctions
checkTypeScript == options.checkTypeScript # FALSE

IsUpper(u) == u \in 65..90
IsLower(u) == u \in 97..122
IsDigit(u) == u \in 48..57

\* /^[A-Z][a-zA-Z0-9]*$/.test(name)
isPascalCase(name) ==
    LET units == CodeUnits(name) IN
    /\ Len(units) >= 1
    /\ IsUpper(units[1])
    /\ \A k \in 2..Len(units) :
          IsUpper(units[k]) \/ IsLower(units[k]) \/ IsDigit(units[k])

\* body.body.some(stmt => stmt.type === "ReturnStatement" &&
\*                        stmt.argument && stmt.argument.type === "JSXElement")
SomeReturnsJSX(statements) ==
    \E k \in 1..Len(statements) :
        /\ statements[k].type = "ReturnStatement"
        /\ statements[k].argument.type # "null"
        /\ statements[k].argument.type = "JSXElement"

isReactComponent(node, name) ==
    IF ~isPascalCase(name) THEN FALSE
    ELSE IF /\ isTypeScript /\ checkTypeScript
            /\ node.init.type # "null"
            /\ node.init.type = "ArrowFunctionExpression"
            /\ node.init.body.type = "JSXElement"
         THEN TRUE
    ELSE IF /\ isTypeScript /\ checkTypeScript
            /\ node.init.type # "null"
            /\ node.init.type = "ArrowFunctionExpression"
            /\ node.init.body.type = "BlockStatement"
         THEN SomeReturnsJSX(node.init.body.body)
    ELSE isPascalCase(name)

IsFunctionValue(node) ==
    node.type = "ArrowFunctionExpression" \/ node.type = "FunctionExpression"

\* The guard that never returns: every declaration is examined.
IsTopLevelAlways(node) == TRUE

\* The guard of the VariableDeclaration visitor.
IsTopLevel(node) ==
    ~(node.parentType # "Program" /\ node.parentType # "ExportNamedDeclaration")

ArrowReport(idx, k, messageId, name) ==
    [node |-> [declaration |-> idx, declarator |-> k],
     messageId |-> messageId, data |-> [name |-> name]]

\* The loop of the VariableDeclaration visitor from declarator k on, for the
\* declaration at position idx of the file: what it reports.
RECURSIVE DeclaratorReports(_, _, _)
DeclaratorReports(node, idx, k) ==
    IF k > Len(node.declarations) THEN <<>>
    ELSE
        LET decl == node.declarations[k]
            name == decl.name
            init == decl.init
            isComponent == isReactComponent(decl, name)
            ts == isTypeScript /\ checkTypeScript
        IN  IF \/ decl.type # "VariableDeclarator"
               \/ decl.idType # "Identifier"
               \/ init.type = "null"
            THEN DeclaratorReports(node, idx, k + 1)
            ELSE IF /\ isComponent
                    /\ init.type = "CallExpression"
                    /\ Len(init.arguments) > 0
                    /\ IsFunctionValue(init.arguments[1])
            THEN <<>>
            ELSE IF isComponent /\ IsFunctionValue(init)
            THEN <<ArrowReport(idx, k,
                     IF ts THEN "tsArrowComponent" ELSE "arrowComponent", name)>>
            ELSE IF ~isComponent /\ ~allowArrowFunctions /\ IsFunctionValue(init)
            THEN <<ArrowReport(idx, k,
                     IF ts THEN "tsArrowFunction" ELSE "arrowFunction", name)>>
                 \o DeclaratorReports(node, idx, k + 1)
            ELSE DeclaratorReports(node, idx, k + 1)

\* The VariableDeclaration visitor on the node at position idx of the file.
OnVariableDeclaration(node, idx) ==
    IF ~IsTopLevel(node) THEN <<>>
    ELSE DeclaratorReports(node, idx, 1)

----------------------------------------------------------------------------
(* no-arrow-components: the nodes of the host and the rule instance *)

NoInit == [type |-> "null"]
JSX == [type |-> "JSXElement"]
Literal == [type |-> "Literal"]
Return(argument) == [type |-> "ReturnStatement", argument |-> argument]
Block(statements) == [type |-> "BlockStatement", body |-> statements]
Arrow(body) == [type |-> "ArrowFunctionExpression", body |-> body]
FunctionExpr == [type |-> "FunctionExpression", body |-> Block(<<Return(JSX)>>)]
Call(arguments) == [type |-> "CallExpression", arguments |-> arguments]

\* () => <div/>, () => { return <div/> }, () => { f(); return 1 },
\* () => { return }, () => 1
ArrowInits ==
    {Arrow(JSX), Arrow(Block(<<Return(JSX)>>)),
     Arrow(Block(<<[type |-> "ExpressionStatement"], Return(Literal)>>)),
     Arrow(Block(<<Return(NoInit)>>)),
     Arrow(Literal)}

\* memo(() => <div/>), forwardRef(function () {}), f(x), f()
CallInits ==
    {Call(<<Arrow(JSX)>>), Call(<<FunctionExpr>>),
     Call(<<[type |-> "Identifier"]>>), Call(<<>>)}

Inits == ArrowInits \cup CallInits \cup {FunctionExpr, Literal, NoInit}

Declarator(idType, name, init) ==
    [type |-> "VariableDeclarator", idType |-> idType, name |-> name,
     init |-> init]

\* Foo = ..., foo = ..., F_o = () => <div/>, { a } = () => <div/>
DeclaratorNodes ==
    {Declarator("Identifier", n, init) : n \in {"Foo", "foo"}, init \in Inits}
    \cup {Declarator("Identifier", "F_o", Arrow(JSX)),
          Declarator("ObjectPattern", "", Arrow(JSX))}

ParentTypes == {"Program", "ExportNamedDeclaration", "BlockStatement"}

DeclarationNodes(n) ==
    {[type |-> "VariableDeclaration", parentType |-> parent,
      declarations |-> declarations] :
        parent \in ParentTypes,
        declarations \in UNION {[1..m -> DeclaratorNodes] : m \in 1..n}}

RECURSIVE DeclaratorCount(_)
DeclaratorCount(nodes) ==
    IF nodes = <<>> THEN 0
    ELSE Len(Head(nodes).declarations) + DeclaratorCount(Tail(nodes))

ArrowOptions == [allowArrowFunctions : BOOLEAN, checkTypeScript : BOOLEAN]

InitArrow ==
    /\ rule = "no-arrow-components"
    /\ options \in ArrowOptions
    /\ filename \in {"a.js", "a.ts", "a.tsx"}
    /\ fs = <<>>
    /\ InitFile

\* The host visits a variable declaration.
VariableDeclaration(node) ==
    /\ phase = "traverse"
    /\ file' = Append(file, node)
    /\ reports' = reports \o OnVariableDeclaration(node, Len(file) + 1)
    /\ UNCHANGED <<fs, rule, options, filename, phase, defaultImports, fixedFile,
                   reports2>>

NextArrow ==
    \E node \in DeclarationNodes(MaxDeclarators - DeclaratorCount(file)) :
        VariableDeclaration(node)

SpecArrow == InitArrow /\ [][NextArrow]_vars

----------------------------------------------------------------------------
(* Properties of no-arrow-components *)

\* The reports anchored at declarator k of the declaration at position i.
ReportsAt(i, k) ==
    {r \in 1..Len(reports) :
        reports[r].node = [declaration |-> i, declarator |-> k]}

IsComponentMessage(r) == r.messageId \in {"arrowComponent", "tsArrowComponent"}
IsFunctionMessage(r) == r.messageId \in {"arrowFunction", "tsArrowFunction"}

\* The top-level declarations of the file with a single declarator that
\* binds an identifier.
SingleDeclarations ==
    {i \in 1..Len(file) :
        /\ IsTopLevel(file[i])
        /\ Len(file[i].declarations) = 1
        /\ file[i].declarations[1].idType = "Identifier"}

IsHocCall(init) ==
    /\ init.type = "CallExpression"
    /\ Len(init.arguments) > 0
    /\ IsFunctionValue(init.arguments[1])

\* C7: for a top-level declaration with one declarator binding an
\* identifier: a PascalCase name with an arrow/function expression gets
\* exactly one component report, whatever allowArrowFunctions is; a call whose
\* first argument is an arrow/function expression gets no report; any other
\* name with an arrow/function expression gets exactly one generic-function
\* report if allowArrowFunctions is false and none if it is true.
C7_SingleDeclaratorDecision ==
    \A i \in SingleDeclarations :
        LET decl == file[i].declarations[1]
            got == ReportsAt(i, 1)
        IN  /\ (isPascalCase(decl.name) /\ IsFunctionValue(decl.init)) =>
                  /\ Cardinality(got) = 1
                  /\ \A r \in got : IsComponentMessage(reports[r])
            /\ IsHocCall(decl.init) => got = {}
            /\ (~isPascalCase(decl.name) /\ IsFunctionValue(decl.init)) =>
                  IF options.allowArrowFunctions THEN got = {}
                  ELSE /\ Cardinality(got) = 1
                       /\ \A r \in got : IsFunctionMessage(reports[r])

\* C8: in a .ts/.tsx file with checkTypeScript, a binding is classified as a
\* component iff its name is PascalCase, and a PascalCase arrow function
\* with a block body that returns no JSX is reported with the component
\* message.
C8_NamingDecidesInRicherMode ==
    (isTypeScript /\ checkTypeScript) =>
        /\ \A i \in SingleDeclarations :
              LET decl == file[i].declarations[1] IN
              IsFunctionValue(decl.init) =>
                  (isReactComponent(decl, decl.name) <=> isPascalCase(decl.name))
        /\ \A i \in SingleDeclarations :
              LET decl == file[i].declarations[1] IN
              (/\ isPascalCase(decl.name)
               /\ decl.init.type = "ArrowFunctionExpression"
               /\ decl.init.body.type = "BlockStatement"
               /\ ~SomeReturnsJSX(decl.init.body.body))
              => /\ Cardinality(ReportsAt(i, 1)) = 1
                 /\ \A r \in ReportsAt(i, 1) :
                       reports[r].messageId = "tsArrowComponent"

\* C9: a declarator of a top-level declaration gets the reports it would get
\* as the only declarator of the declaration, whatever precedes it.
C9_DeclaratorsIndependent ==
    \A i \in 1..Len(file) : \A k \in 1..Len(file[i].declarations) :
        LET alone == [file[i] EXCEPT !.declarations = <<file[i].declarations[k]>>]
        IN  {reports[r].messageId : r \in ReportsAt(i, k)}
            = {rep.messageId : rep \in Range(OnVariableDeclaration(alone, i))}

\* C10: no report is anchored in a declaration whose parent is neither the
\* program nor a named-export declaration.
C10_NestedNeverReported ==
    \A i \in 1..Len(file) :
        file[i].parentType \notin {"Program", "ExportNamedDeclaration"} =>
            \A k \in 1..Len(file[i].declarations) : ReportsAt(i, k) = {}

\* A block holds `const Foo = () => <div/>, foo = () => 1` and nothing is
\* reported under options that report both at top level.
C10_Witness ==
    /\ ~options.allowArrowFunctions
    /\ \E i \in 1..Len(file) :
          /\ file[i].parentType = "BlockStatement"
          /\ file[i].declarations =
                <<Declarator("Identifier", "Foo", Arrow(JSX)),
                  Declarator("Identifier", "foo", Arrow(Literal))>>
    /\ reports = <<>>

----------------------------------------------------------------------------
(* enforce-path-alias: strings and paths                                   *)
(*                                                                         *)
(* The rule computes on the characters of paths (startsWith, replace,      *)
(* split) and on their segments (path.resolve, path.relative), so its      *)
(* strings are sequences of UTF-16 code units.  Paths are POSIX paths.     *)

SLASH == 47
DOT == 46

\* String.prototype.startsWith
StartsWith(s, prefix) ==
    /\ Len(prefix) <= Len(s)
    /\ SubSeq(s, 1, Len(prefix)) = prefix

\* String.prototype.indexOf, 1-based; 0 when the pattern does not occur.
IndexOf(s, pat) ==
    LET hits == {i \in 1..(Len(s) - Len(pat) + 1) :
                    SubSeq(s, i, i + Len(pat) - 1) = pat}
    IN  IF hits = {} THEN 0 ELSE CHOOSE i \in hits : \A j \in hits : i <= j

\* String.prototype.replace with a string pattern: the first occurrence.
Replace(s, pat, by) ==
    LET i == IndexOf(s, pat)
    IN  IF i = 0 THEN s
        ELSE SubSeq(s, 1, i - 1) \o by \o SubSeq(s, i + Len(pat), Len(s))

\* String.prototype.split(path.sep): "" splits into one empty part.
RECURSIVE Split(_)
Split(s) ==
    LET i == IndexOf(s, <<SLASH>>)
    IN  IF i = 0 THEN <<s>>
        ELSE <<SubSeq(s, 1, i - 1)>> \o Split(SubSeq(s, i + 1, Len(s)))

\* Array.prototype.join("/") on code-unit strings.
RECURSIVE JoinPath(_)
JoinPath(parts) ==
    IF parts = <<>> THEN <<>>
    ELSE IF Len(parts) = 1 THEN parts[1]
    ELSE parts[1] \o <<SLASH>> \o JoinPath(Tail(parts))

\* The segments of a path with "", "." and ".." resolved; ".." at the root
\* stays at the root.
RECURSIVE NormalizeParts(_, _)
NormalizeParts(parts, stack) ==
    IF parts = <<>> THEN stack
    ELSE LET h == Head(parts)
         IN  IF h = <<>> \/ h = <<DOT>> THEN NormalizeParts(Tail(parts), stack)
             ELSE IF h = <<DOT, DOT>> THEN
                 NormalizeParts(Tail(parts),
                     IF stack = <<>> THEN <<>>
                     ELSE SubSeq(stack, 1, Len(stack) - 1))
             ELSE NormalizeParts(Tail(parts), Append(stack, h))

\* path.resolve(from, to) with `from` absolute: the normalized absolute
\* path, without a trailing slash.
pathResolve(from, to) ==
    LET joined == IF to # <<>> /\ to[1] = SLASH THEN to
                  ELSE IF to = <<>> THEN from
                  ELSE from \o <<SLASH>> \o to
    IN  <<SLASH>> \o JoinPath(NormalizeParts(Split(joined), <<>>))

\* path.dirname of an absolute path.
pathDirname(p) ==
    LET parts == NormalizeParts(Split(p), <<>>)
    IN  IF parts = <<>> THEN <<SLASH>>
        ELSE <<SLASH>> \o JoinPath(SubSeq(parts, 1, Len(parts) - 1))

RECURSIVE CommonLength(_, _)
CommonLength(a, b) ==
    IF a = <<>> \/ b = <<>> \/ Head(a) # Head(b) THEN 0
    ELSE 1 + CommonLength(Tail(a), Tail(b))

\* path.relative(from, to) of two absolute paths: one ".." for each segment
\* of `from` below the common ancestor, then the rest of `to`.
pathRelative(from, to) ==
    LET f == NormalizeParts(Split(from), <<>>)
        t == NormalizeParts(Split(to), <<>>)
        c == CommonLength(f, t)
    IN  JoinPath([i \in 1..(Len(f) - c) |-> <<DOT, DOT>>]
                 \o SubSeq(t, c + 1, Len(t)))

----------------------------------------------------------------------------
(* enforce-path-alias: the values and files create() reads *)

\* JavaScript values that may be absent or of several types carry their type.
Undefined == [type |-> "undefined"]
Str(s) == [type |-> "string", value |-> CodeUnits(s)]
Obj(entries) == [type |-> "object", entries |-> entries]
Arr(entries) == [type |-> "array", entries |-> entries]
Null == [type |-> "null"]

\* One property of a path-mapping object: the key and its array of targets.
Entry(key, target) == [key |-> CodeUnits(key), value |-> <<CodeUnits(target)>>]

\* Object.assign that leaves the keys the target already has.
RECURSIVE ObjectAssignKeepExisting(_, _)
ObjectAssignKeepExisting(target, source) ==
    IF source = <<>> THEN target
    ELSE ObjectAssignKeepExisting(
             IF MapHas(target, Head(source).key) THEN target
             ELSE Append(target, Head(source)),
             Tail(source))

\* Object.assign(target, source): own properties of source in order; an
\* existing key keeps its position and takes the new value.
RECURSIVE ObjectAssign(_, _)
ObjectAssign(target, source) ==
    IF source = <<>> THEN target
    ELSE ObjectAssign(MapSet(target, Head(source).key, Head(source).value),
                      Tail(source))

\* A file of the project as fs sees it: absent, present but failing to read
\* or parse, or present with the content the rule takes from it.
Missing == [state |-> "missing"]
Malformed == [state |-> "malformed"]
Tsconfig(baseUrl, paths, references) ==
    [state |-> "json", baseUrl |-> baseUrl, paths |-> paths,
     references |-> references]
ViteConfig(aliases) == [state |-> "text", aliases |-> aliases]

existsSync(f) == f.state # "missing"
----------------------------------------------------------------------------
(* enforce-path-alias: create() *)

cwd == CodeUnits("/proj")

mode == IF options.mode = Undefined THEN "direct-children" ELSE options.mode.value
manualPaths == options.paths
userBaseUrl == options.baseUrl
fallbackBaseUrl == CodeUnits("./src")
excludeFolders == options.exclude
supportedExtensions ==
    <<<<46, 106, 115>>, <<46, 106, 115, 120>>, <<46, 116, 115>>,
      <<46, 116, 115, 120>>, <<46, 118, 117, 101>>,
      <<46, 115, 118, 101, 108, 116, 101>>>>
includeDeclarationFiles == options.includeDeclarationFiles

\* /\.d\.ts$/.test(filename)
isDeclarationFile == EndsWith(CodeUnits(filename), <<46, 100, 46, 116, 115>>)

\* create() returns the visitors: the file is no skipped declaration file
\* and has a supported extension.
HasVisitors ==
    /\ ~(isDeclarationFile /\ ~includeDeclarationFiles)
    /\ \E i \in 1..Len(supportedExtensions) :
          EndsWith(CodeUnits(filename), supportedExtensions[i])

\* The first of the common directories that exists and qualifies.
RECURSIVE ProbeDirs(_)
ProbeDirs(dirs) ==
    IF dirs = <<>> THEN fallbackBaseUrl
    ELSE LET dir == Head(dirs)
         IN  IF /\ fs.dirs[dir] # "absent"
                /\ (fs.dirs[dir] = "sources" \/ dir = "src" \/ dir = "app")
             THEN (IF dir = "." THEN <<DOT, SLASH>>
                   ELSE <<DOT, SLASH>> \o CodeUnits(dir))
             ELSE ProbeDirs(Tail(dirs))

detectBaseUrl ==
    IF userBaseUrl # Undefined THEN userBaseUrl.value
    ELSE IF fs.tsconfig.state = "json" /\ fs.tsconfig.baseUrl # Undefined
         THEN fs.tsconfig.baseUrl.value
    ELSE ProbeDirs(IF isTypeScript THEN <<"src", "lib", "app", ".">>
                   ELSE <<"src", "app", "lib", ".">>)

\* The referenced configs in order, each merged over what is collected so
\* far; one that is missing, unreadable or without paths adds nothing.
RECURSIVE MergeReferences(_, _)
MergeReferences(allPaths, references) ==
    IF references = <<>> THEN allPaths
    ELSE LET ref == Head(references)
         IN  MergeReferences(
                 IF ref.state = "json" /\ ref.paths # Undefined
                 THEN ObjectAssign(allPaths, ref.paths.entries)
                 ELSE allPaths,
                 Tail(references))

resolveProjectReferences(tsconfig) ==
    IF tsconfig.state # "json" THEN <<>>
    ELSE IF tsconfig.references # Undefined THEN
        MergeReferences(
            IF tsconfig.paths # Undefined
            THEN ObjectAssign(<<>>, tsconfig.paths.entries)
            ELSE <<>>,
            tsconfig.references.entries)
    ELSE IF tsconfig.paths # Undefined THEN tsconfig.paths.entries
    ELSE <<>>

\* The aliases object built from the matches found in one bundler config.
RECURSIVE ViteAliases(_, _)
ViteAliases(aliases, matches) ==
    IF matches = <<>> THEN aliases
    ELSE LET aliasKey == Head(matches).key
             aliasPath == Head(matches).path
             normalizedPath == IF StartsWith(aliasPath, <<DOT, SLASH>>)
                               THEN aliasPath
                               ELSE <<DOT, SLASH>> \o aliasPath
         IN  ViteAliases(
                 MapSet(aliases, aliasKey \o <<SLASH, 42>>,
                        <<normalizedPath \o <<SLASH, 42>>>>),
                 Tail(matches))

\* The bundler configs in order: the first that exists, reads and yields at
\* least one alias.
RECURSIVE FromViteConfigs(_)
FromViteConfigs(configs) ==
    IF configs = <<>> THEN <<>>
    ELSE LET config == Head(configs)
             aliases == IF config.state = "text"
                        THEN ViteAliases(<<>>, config.aliases)
                        ELSE <<>>
         IN  IF Len(aliases) > 0 THEN aliases
             ELSE FromViteConfigs(Tail(configs))

\* getPathMappings consulting the config files before the paths option.
getPathMappingsConfigFirst ==
    LET paths == IF existsSync(fs.tsconfig)
                 THEN resolveProjectReferences(fs.tsconfig)
                 ELSE <<>>
    IN  IF Len(paths) > 0 THEN paths
        ELSE IF manualPaths # Undefined THEN manualPaths.entries
        ELSE FromViteConfigs(fs.vite)

getPathMappings ==
    IF manualPaths # Undefined THEN manualPaths.entries
    ELSE LET paths == IF existsSync(fs.tsconfig)
                      THEN resolveProjectReferences(fs.tsconfig)
                      ELSE <<>>
         IN  IF Len(paths) > 0 THEN paths
             ELSE FromViteConfigs(fs.vite)

finalBaseUrl == detectBaseUrl

\* One pattern per entry of the mapping, in the order of Object.entries.
createAliasPatterns(pathMappings) ==
    [i \in 1..Len(pathMappings) |->
        LET alias == pathMappings[i].key
            targets == pathMappings[i].value
            aliasPattern == Replace(alias, <<SLASH, 42>>, <<>>)
            targetPath == IF targets = <<>> THEN <<>>
                          ELSE Replace(targets[1], <<SLASH, 42>>, <<>>)
        IN  [alias |-> aliasPattern,
             targetPath |->
                 pathResolve(pathResolve(cwd, finalBaseUrl), targetPath)]]

\* isDirectChildOfSrc without the count of the parts.
isDirectChildOfSrcAnyDepth(filePath) ==
    LET srcPath == pathResolve(cwd, finalBaseUrl)
        relativePath == pathRelative(srcPath, filePath)
    IN  ~StartsWith(relativePath, <<DOT, DOT>>)

isDirectChildOfSrc(filePath) ==
    LET srcPath == pathResolve(cwd, finalBaseUrl)
        relativePath == pathRelative(srcPath, filePath)
        pathParts == Split(relativePath)
    IN  Len(pathParts) = 2 /\ ~StartsWith(relativePath, <<DOT, DOT>>)

\* shouldUseAlias without the test for a relative import path.
shouldUseAliasAnyPath(importPath, currentFilePath) ==
    LET currentDir == pathDirname(currentFilePath)
        resolvedImportPath == pathResolve(currentDir, importPath)
        srcPath == pathResolve(cwd, finalBaseUrl)
        relativeToCwd == pathRelative(cwd, resolvedImportPath)
    IN  IF \E i \in 1..Len(excludeFolders) :
               StartsWith(relativeToCwd, excludeFolders[i])
        THEN FALSE
        ELSE IF mode = "direct-children"
        THEN isDirectChildOfSrc(resolvedImportPath)
        ELSE StartsWith(resolvedImportPath, srcPath)

shouldUseAlias(importPath, currentFilePath) ==
    IF /\ ~StartsWith(importPath, <<DOT, DOT, SLASH>>)
       /\ ~StartsWith(importPath, <<DOT, SLASH>>)
    THEN FALSE
    ELSE LET currentDir == pathDirname(currentFilePath)
             resolvedImportPath == pathResolve(currentDir, importPath)
             srcPath == pathResolve(cwd, finalBaseUrl)
             relativeToCwd == pathRelative(cwd, resolvedImportPath)
         IN  IF \E i \in 1..Len(excludeFolders) :
                    StartsWith(relativeToCwd, excludeFolders[i])
             THEN FALSE
             ELSE IF mode = "direct-children"
             THEN isDirectChildOfSrc(resolvedImportPath)
             ELSE StartsWith(resolvedImportPath, srcPath)

\* The suggestion of the matching pattern with the longest target path.
LongestMatchingAlias(patterns, resolvedImportPath) ==
    LET matching == {k \in 1..Len(patterns) :
                        StartsWith(resolvedImportPath, patterns[k].targetPath)}
    IN  IF matching = {} THEN Null
        ELSE LET k == CHOOSE i \in matching : \A j \in matching :
                          \/ Len(patterns[j].targetPath) < Len(patterns[i].targetPath)
                          \/ (/\ Len(patterns[j].targetPath) = Len(patterns[i].targetPath)
                              /\ i <= j)
             IN  [type |-> "string",
                  value |-> patterns[k].alias \o <<SLASH>> \o
                      pathRelative(patterns[k].targetPath, resolvedImportPath)]

\* The suggestion of the first pattern whose target path is a string prefix
\* of the resolved import path, or null.
RECURSIVE FirstMatchingAlias(_, _)
FirstMatchingAlias(patterns, resolvedImportPath) ==
    IF patterns = <<>> THEN Null
    ELSE LET pattern == Head(patterns)
         IN  IF StartsWith(resolvedImportPath, pattern.targetPath)
             THEN [type |-> "string",
                   value |-> pattern.alias \o <<SLASH>> \o
                       pathRelative(pattern.targetPath, resolvedImportPath)]
             ELSE FirstMatchingAlias(Tail(patterns), resolvedImportPath)

pathMappings == getPathMappings
aliasPatterns == createAliasPatterns(pathMappings)

findMatchingAlias(importPath, currentFilePath, patterns) ==
    FirstMatchingAlias(patterns,
        pathResolve(pathDirname(currentFilePath), importPath))
----------------------------------------------------------------------------
(* enforce-path-alias: the nodes of the host and the visitors *)

APOSTROPHE == 39
QUOTATION == 34

\* A string literal as the parser hands it over: its value and its source
\* text, the value between two quote characters.
StringLiteral(s, quote) ==
    [type |-> "Literal", value |-> Str(s),
     raw |-> <<quote>> \o CodeUnits(s) \o <<quote>>]

\* A literal that is no string: 42, null, true, /x/.
OtherLiteral(type) == [type |-> "Literal", value |-> [type |-> type]]

ImportFrom(source) == [type |-> "ImportDeclaration", source |-> source]

CallOf(name, arguments) ==
    [type |-> "CallExpression", callee |-> [type |-> "Identifier", name |-> name],
     arguments |-> arguments]

\* ImportDeclaration(node), lines 790-811: what it reports.
OnAliasImportDeclaration(node, idx) ==
    LET importPath == node.source.value.value
        currentFilePath == CodeUnits(filename)
        suggestedAlias == findMatchingAlias(importPath, currentFilePath,
                                            aliasPatterns)
    IN  IF shouldUseAlias(importPath, currentFilePath) /\ suggestedAlias # Null
        THEN <<[node |-> <<idx, "source">>,
                message |-> [kind |-> "import", alias |-> suggestedAlias.value,
                             importPath |-> importPath],
                fix |-> [op |-> "replaceText", target |-> <<idx, "source">>,
                         text |-> <<APOSTROPHE>> \o suggestedAlias.value
                                  \o <<APOSTROPHE>>]]>>
        ELSE <<>>

\* The guard of CallExpression(node), lines 816-820.
IsRequireOfLiteral(node) ==
    /\ node.callee.name = "require"
    /\ Len(node.arguments) = 1
    /\ node.arguments[1].type = "Literal"

\* CallExpression(node), lines 814-844: what it reports when it returns.
OnAliasCallExpression(node, idx) ==
    IF ~IsRequireOfLiteral(node) THEN <<>>
    ELSE
    LET importPath == node.arguments[1].value.value
        currentFilePath == CodeUnits(filename)
        suggestedAlias == findMatchingAlias(importPath, currentFilePath,
                                            aliasPatterns)
    IN  IF shouldUseAlias(importPath, currentFilePath) /\ suggestedAlias # Null
        THEN <<[node |-> <<idx, "arguments">>,
                message |-> [kind |-> "require", alias |-> suggestedAlias.value,
                             importPath |-> importPath],
                fix |-> [op |-> "replaceText", target |-> <<idx, "arguments">>,
                         text |-> <<APOSTROPHE>> \o suggestedAlias.value
                                  \o <<APOSTROPHE>>]]>>
        ELSE <<>>

\* CallExpression(node) throws: the guard passed and importPath.startsWith
\* is called on a value that is no string (a TypeError).
CallExpressionThrows(node) ==
    IsRequireOfLiteral(node) /\ node.arguments[1].value.type # "string"

----------------------------------------------------------------------------
(* enforce-path-alias: the host and the rule instance on one file *)

\* The parser's reading of the source text of a string literal.
ParseLiteral(raw) ==
    [type |-> "Literal",
     value |-> [type |-> "string", value |-> SubSeq(raw, 2, Len(raw) - 1)],
     raw |-> raw]

\* The file after fixer.replaceText of every report of the pass.
ApplyAliasFixes(nodes, reps) ==
    [i \in 1..Len(nodes) |->
        LET fixes == {r \in 1..Len(reps) : reps[r].fix.target[1] = i}
        IN  IF fixes = {} THEN nodes[i]
            ELSE LET literal == ParseLiteral(reps[CHOOSE r \in fixes : TRUE].fix.text)
                 IN  IF nodes[i].type = "ImportDeclaration"
                     THEN [nodes[i] EXCEPT !.source = literal]
                     ELSE [nodes[i] EXCEPT !.arguments = <<literal>>]]

\* One pass of the rule over a file none of whose nodes makes it throw.
RECURSIVE AliasLint(_, _)
AliasLint(nodes, i) ==
    IF i > Len(nodes) \/ ~HasVisitors THEN <<>>
    ELSE (IF nodes[i].type = "ImportDeclaration"
          THEN OnAliasImportDeclaration(nodes[i], i)
          ELSE OnAliasCallExpression(nodes[i], i))
         \o AliasLint(nodes, i + 1)

AliasImportNodes ==
    {ImportFrom(StringLiteral(s, APOSTROPHE)) :
        s \in {"../utils/helpers", "../utils/deep/helpers", "./Icon",
               "../config", "../../lib/x", "../../src-old/x",
               "@/utils/helpers", "react"}}
    \cup {ImportFrom(StringLiteral(s, QUOTATION)) :
            s \in {"../utils/helpers", "@/utils/helpers"}}

AliasCallNodes ==
    {CallOf("require", <<StringLiteral(s, q)>>) :
        s \in {"../utils/helpers", "@/utils/helpers"},
        q \in {APOSTROPHE, QUOTATION}}
    \cup {CallOf("require", <<OtherLiteral(t)>>) :
            t \in {"number", "null", "boolean", "regex"}}
    \cup {CallOf("require", <<>>),
          CallOf("require", <<[type |-> "Identifier", name |-> "name"]>>),
          CallOf("require", <<StringLiteral("../utils/helpers", APOSTROPHE),
                              StringLiteral("react", APOSTROPHE)>>),
          CallOf("load", <<StringLiteral("../utils/helpers", APOSTROPHE)>>)}

\* The host visits an import declaration.
AliasImportDeclaration(node) ==
    /\ phase = "traverse"
    /\ file' = Append(file, node)
    /\ reports' = IF HasVisitors
                  THEN reports \o OnAliasImportDeclaration(node, Len(file) + 1)
                  ELSE reports
    /\ UNCHANGED <<fs, rule, options, filename, phase, defaultImports,
                   fixedFile, reports2>>

\* The host visits a call expression; an exception of the visitor ends the
\* lint of the file.
AliasCallExpression(node) ==
    /\ phase = "traverse"
    /\ file' = Append(file, node)
    /\ IF HasVisitors /\ CallExpressionThrows(node)
       THEN phase' = "crashed" /\ UNCHANGED reports
       ELSE /\ reports' = IF HasVisitors
                          THEN reports \o OnAliasCallExpression(node, Len(file) + 1)
                          ELSE reports
            /\ UNCHANGED phase
    /\ UNCHANGED <<fs, rule, options, filename, defaultImports, fixedFile,
                   reports2>>

\* The traversal ends; the host applies the fixes of the pass and lints the
\* result with a fresh rule instance.
AliasFixAndRelint ==
    /\ phase = "traverse"
    /\ phase' = "fixed"
    /\ fixedFile' = ApplyAliasFixes(file, reports)
    /\ reports2' = AliasLint(ApplyAliasFixes(file, reports), 1)
    /\ UNCHANGED <<fs, rule, options, filename, file, defaultImports, reports>>

MaxAliasNodes == 1     \* nodes per file, specification SpecAlias
MaxConfigNodes == 1    \* nodes per file, specification SpecAliasConfig

\* The directories detectBaseUrl probes: absent, without or with source files.
Dirs(src, lib, app, root) ==
    [d \in {"src", "lib", "app", "."} |->
        IF d = "src" THEN src ELSE IF d = "lib" THEN lib
        ELSE IF d = "app" THEN app ELSE root]

NoViteConfigs == <<Missing, Missing, Missing, Missing>>

\* A project with a src directory and no config file.
SrcProject ==
    [dirs |-> Dirs("sources", "absent", "absent", "empty"),
     tsconfig |-> Missing, vite |-> NoViteConfigs]

\* A project whose tsconfig.json sets baseUrl and paths relative to it.
TsProject ==
    [dirs |-> Dirs("sources", "absent", "absent", "empty"),
     tsconfig |-> Tsconfig(Str("./src"), Obj(<<Entry("@/*", "./*")>>), Undefined),
     vite |-> NoViteConfigs]

ManualPaths ==
    {Obj(<<Entry("@/*", "./*")>>),
     Obj(<<Entry("@/*", "./src/*")>>),
     Obj(<<Entry("@/*", "./*"), Entry("@components/*", "./components/*")>>),
     Obj(<<Entry("@components/*", "./components/*"), Entry("@/*", "./*")>>),
     Obj(<<Entry("./*", "./*")>>)}

AliasOptions ==
    [mode : {Undefined, [type |-> "string", value |-> "all"]},
     paths : ManualPaths \cup {Undefined},
     baseUrl : {Undefined, Str("./src"), Str(".")},
     exclude : {<<>>, <<CodeUnits("src/utils")>>},
     includeDeclarationFiles : BOOLEAN]

InitAlias ==
    /\ rule = "enforce-path-alias"
    /\ options \in AliasOptions
    /\ filename \in {"/proj/src/components/Button.tsx", "/proj/src/types.d.ts"}
    /\ fs \in {SrcProject, TsProject}
    /\ InitFile

NextAlias ==
    \/ \E node \in AliasImportNodes :
          Len(file) < MaxAliasNodes /\ AliasImportDeclaration(node)
    \/ \E node \in AliasCallNodes :
          Len(file) < MaxAliasNodes /\ AliasCallExpression(node)
    \/ AliasFixAndRelint

SpecAlias == InitAlias /\ [][NextAlias]_vars

----------------------------------------------------------------------------
(* Properties of enforce-path-alias *)

\* The reports of the pass anchored in node i.
AliasReportsAt(i) == {r \in 1..Len(reports) : reports[r].node[1] = i}

\* The import path a report's fix leaves in the file.
FixedPath(report) == ParseLiteral(report.fix.text).value.value

IsImportOf(node, path) ==
    /\ node.type = "ImportDeclaration"
    /\ node.source.value = Str(path)

\* C11: in direct-children mode with base directory ./src and the mapping
\* {"@/*": ["./src/*"]}, the import of ../utils/helpers in
\* src/components/Button.tsx gets exactly one report, whose fix rewrites the
\* path to @/utils/helpers.
C11_ButtonImportFixedToAlias ==
    (/\ mode = "direct-children"
     /\ finalBaseUrl = CodeUnits("./src")
     /\ pathMappings = <<Entry("@/*", "./src/*")>>
     /\ excludeFolders = <<>>
     /\ filename = "/proj/src/components/Button.tsx")
    => \A i \in 1..Len(file) :
          IsImportOf(file[i], "../utils/helpers") =>
              /\ Cardinality(AliasReportsAt(i)) = 1
              /\ \A r \in AliasReportsAt(i) :
                    FixedPath(reports[r]) = CodeUnits("@/utils/helpers")

\* The segments of an absolute path.
PartsOf(p) == NormalizeParts(Split(p), <<>>)

\* The absolute path a report's import path resolves to, in segments.
TargetOf(report) ==
    PartsOf(pathResolve(pathDirname(CodeUnits(filename)),
                        report.message.importPath))

BaseParts == PartsOf(pathResolve(cwd, finalBaseUrl))

\* dir is target or an ancestor directory of target.
IsAncestorOrSelf(dir, target) ==
    /\ Len(dir) <= Len(target)
    /\ SubSeq(target, 1, Len(dir)) = dir

\* C12: in direct-children mode every report is for an import or require
\* whose resolved target is base/<child>/<name>: exactly two segments below
\* the base directory.
C12_DirectChildrenOnly ==
    mode = "direct-children" =>
        \A r \in 1..Len(reports) :
            LET base == BaseParts
                target == TargetOf(reports[r])
            IN  /\ IsAncestorOrSelf(base, target)
                /\ Len(target) = Len(base) + 2

\* In direct-children mode with base /proj/src the import of
\* ../utils/helpers in src/components/Button.tsx, which resolves to
\* /proj/src/utils/helpers, is reported with @/utils/helpers.
C12_Witness ==
    /\ mode = "direct-children"
    /\ Len(BaseParts) = 2
    /\ Len(file) = 1
    /\ IsImportOf(file[1], "../utils/helpers")
    /\ Len(reports) = 1
    /\ Len(TargetOf(reports[1])) = 4
    /\ FixedPath(reports[1]) = CodeUnits("@/utils/helpers")

\* Some pattern of the rule yields the report's suggestion and has a target
\* directory that is the resolved target or an ancestor of it.
MatchedPatternIsAncestor(report) ==
    \E k \in 1..Len(aliasPatterns) :
        /\ report.message.alias =
              aliasPatterns[k].alias \o <<SLASH>> \o
              pathRelative(aliasPatterns[k].targetPath,
                           <<SLASH>> \o JoinPath(TargetOf(report)))
        /\ IsAncestorOrSelf(PartsOf(aliasPatterns[k].targetPath),
                            TargetOf(report))

\* C13: in mode all every report is for a target that is the base directory
\* or inside it, matched by a pattern whose target directory is the target
\* or an ancestor of it; a target in src-old next to base src is among the
\* targets never reported.
C13_AllModeUnderBase ==
    mode = "all" =>
        \A r \in 1..Len(reports) :
            /\ IsAncestorOrSelf(BaseParts, TargetOf(reports[r]))
            /\ MatchedPatternIsAncestor(reports[r])

IsRelative(path) ==
    StartsWith(path, <<DOT, SLASH>>) \/ StartsWith(path, <<DOT, DOT, SLASH>>)

\* The path is written with an alias of the configured mapping.
WrittenWithAlias(path) ==
    LET patterns == aliasPatterns
    IN  \E k \in 1..Len(patterns) :
            StartsWith(path, patterns[k].alias \o <<SLASH>>)

\* No report of either pass is for a path that is not relative or that is
\* written with a configured alias, and the re-lint reports no node the
\* first pass fixed.
AliasPathsNeverFlagged ==
    /\ \A r \in 1..Len(reports) :
          /\ IsRelative(reports[r].message.importPath)
          /\ ~WrittenWithAlias(reports[r].message.importPath)
    /\ \A r \in 1..Len(reports2) :
          /\ IsRelative(reports2[r].message.importPath)
          /\ ~WrittenWithAlias(reports2[r].message.importPath)
          /\ AliasReportsAt(reports2[r].node[1]) = {}

\* C14 as stated: for any configured mapping, a path that is not relative,
\* a path written with a configured alias and a path the fix produced are
\* never reported.
C14_AliasPathsNeverFlagged == AliasPathsNeverFlagged

\* C14, amended: the same when no configured alias itself starts with ./
\* or ../.
C14_NonRelativeAliasesNeverFlagged ==
    \/ AliasPathsNeverFlagged
    \/ LET patterns == aliasPatterns
       IN  \E k \in 1..Len(patterns) :
               IsRelative(patterns[k].alias \o <<SLASH>>)

\* A file imports ../utils/helpers under an @ mapping: the import was
\* reported and fixed, and the re-lint of the fixed file, which now imports
\* @/utils/helpers, reports nothing.
C14_Witness ==
    /\ phase = "fixed"
    /\ Len(aliasPatterns) > 0
    /\ \A k \in 1..Len(aliasPatterns) :
          ~IsRelative(aliasPatterns[k].alias \o <<SLASH>>)
    /\ Len(file) = 1
    /\ IsImportOf(file[1], "../utils/helpers")
    /\ Len(reports) = 1
    /\ IsImportOf(fixedFile[1], "@/utils/helpers")
    /\ reports2 = <<>>

\* The literal of the file that a report's fix replaces.
OriginalLiteral(report) ==
    IF report.fix.target[2] = "source"
    THEN file[report.fix.target[1]].source
    ELSE file[report.fix.target[1]].arguments[1]

\* C15: the text of every fix is the suggested alias between two quote
\* characters, the quote character being that of the literal it replaces.
C15_FixKeepsQuotes ==
    \A r \in 1..Len(reports) :
        LET original == OriginalLiteral(reports[r]).raw
            text == reports[r].fix.text
        IN  /\ reports[r].fix.op = "replaceText"
            /\ Len(text) = Len(reports[r].message.alias) + 2
            /\ SubSeq(text, 2, Len(text) - 1) = reports[r].message.alias
            /\ text[1] = original[1]
            /\ text[Len(text)] = original[Len(original)]

\* A call the rule is to check: require with a literal string as its sole
\* argument.
IsRequireOfString(node) ==
    /\ node.type = "CallExpression"
    /\ node.callee.name = "require"
    /\ Len(node.arguments) = 1
    /\ node.arguments[1].type = "Literal"
    /\ node.arguments[1].value.type = "string"

\* C18: a call that is not require of a sole literal string gets no report,
\* and no visit ends in an error.
C18_UnrecognisedCallsIgnored ==
    /\ phase # "crashed"
    /\ \A i \in 1..Len(file) :
          (file[i].type = "CallExpression" /\ ~IsRequireOfString(file[i]))
              => AliasReportsAt(i) = {}

----------------------------------------------------------------------------
(* enforce-path-alias: projects with config files *)

\* Referenced configs: absent, unreadable, without paths, and two with
\* paths that share the key @/* with each other and with the parent.
ReferencedConfigs ==
    {Missing, Malformed,
     Tsconfig(Undefined, Undefined, Undefined),
     Tsconfig(Undefined, Obj(<<Entry("@/*", "./components/*")>>), Undefined),
     Tsconfig(Undefined,
              Obj(<<Entry("@components/*", "./components/*"),
                    Entry("@/*", "./utils/*")>>),
              Undefined)}

ReferenceLists ==
    {<<>>} \cup {<<a>> : a \in ReferencedConfigs}
    \cup {<<a, b>> : a \in ReferencedConfigs, b \in ReferencedConfigs}

\* tsconfig.json without references: absent, unreadable, without and with
\* paths.
PlainTsconfigs ==
    {Missing, Malformed, Tsconfig(Undefined, Undefined, Undefined),
     Tsconfig(Undefined, Obj(<<Entry("@/*", "./*")>>), Undefined)}

\* tsconfig.json with references, without and with paths of its own.
ReferencingTsconfigs ==
    {Tsconfig(Undefined, p, Arr(refs)) :
        p \in {Undefined, Obj(<<Entry("@/*", "./*")>>)},
        refs \in ReferenceLists}

\* Bundler configs: absent, unreadable, without an alias, and two with one
\* alias each ('~': 'src' and '@components': './components').
ViteConfigs ==
    {Missing, Malformed, ViteConfig(<<>>),
     ViteConfig(<<[key |-> CodeUnits("~"), path |-> CodeUnits("src")]>>),
     ViteConfig(<<[key |-> CodeUnits("@components"),
                   path |-> CodeUnits("./components")]>>)}

ConfigProjects ==
    [dirs : {Dirs("sources", "absent", "absent", "empty")},
     tsconfig : ReferencingTsconfigs,
     vite : {NoViteConfigs}]
    \cup
    [dirs : {Dirs("sources", "absent", "absent", "empty")},
     tsconfig : PlainTsconfigs,
     vite : [1..4 -> ViteConfigs]]

ConfigOptions ==
    [mode : {[type |-> "string", value |-> "all"]},
     paths : {Undefined, Obj(<<Entry("@/*", "./*")>>)},
     baseUrl : {Str("./src")},
     exclude : {<<>>},
     includeDeclarationFiles : {FALSE}]

ConfigNodes ==
    {ImportFrom(StringLiteral("../utils/helpers", APOSTROPHE)),
     ImportFrom(StringLiteral("./Icon", QUOTATION))}

ConfigCallNodes ==
    {CallOf("require", <<StringLiteral("../utils/helpers", APOSTROPHE)>>)}

InitAliasConfig ==
    /\ rule = "enforce-path-alias"
    /\ options \in ConfigOptions
    /\ filename = "/proj/src/components/Button.tsx"
    /\ fs \in ConfigProjects
    /\ InitFile

NextAliasConfig ==
    \/ \E node \in ConfigNodes :
          Len(file) < MaxConfigNodes /\ AliasImportDeclaration(node)
    \/ \E node \in ConfigCallNodes :
          Len(file) < MaxConfigNodes /\ AliasCallExpression(node)
    \/ AliasFixAndRelint

SpecAliasConfig == InitAliasConfig /\ [][NextAliasConfig]_vars

----------------------------------------------------------------------------
(* Properties of enforce-path-alias: the mapping create() resolves *)

HasReferences == fs.tsconfig.state = "json" /\ fs.tsconfig.references # Undefined

\* The parent config followed by the configs its references lead to.
MergedConfigs == <<fs.tsconfig>> \o fs.tsconfig.references.entries

\* The alias keys a config declares; none when it is absent, unreadable or
\* without paths.
KeysOf(config) ==
    IF config.state = "json" /\ config.paths # Undefined
    THEN {config.paths.entries[e].key : e \in 1..Len(config.paths.entries)}
    ELSE {}

TargetsIn(config, key) ==
    config.paths.entries[MapIndex(config.paths.entries, key)].value

MergedPaths == resolveProjectReferences(fs.tsconfig)

\* The merged mapping has exactly the keys some config declares.
MergedKeysAreDeclared ==
    {MergedPaths[e].key : e \in 1..Len(MergedPaths)}
        = UNION {KeysOf(MergedConfigs[i]) : i \in 1..Len(MergedConfigs)}

\* C16 as stated: with references, each key of the merged mapping has the
\* targets of the first config declaring it, the parent before the
\* references and the references in their order; absent and unreadable
\* referenced configs take no entry away.
C16_FirstWriterWins ==
    HasReferences =>
        /\ MergedKeysAreDeclared
        /\ \A i \in 1..Len(MergedConfigs) :
              \A key \in KeysOf(MergedConfigs[i]) :
                  (\A j \in 1..(i - 1) : key \notin KeysOf(MergedConfigs[j]))
                      => MergedPaths[MapIndex(MergedPaths, key)].value
                             = TargetsIn(MergedConfigs[i], key)

\* C16, amended: each key has the targets of the last config declaring it.
C16_LastWriterWins ==
    HasReferences =>
        /\ MergedKeysAreDeclared
        /\ \A i \in 1..Len(MergedConfigs) :
              \A key \in KeysOf(MergedConfigs[i]) :
                  (\A j \in (i + 1)..Len(MergedConfigs) :
                        key \notin KeysOf(MergedConfigs[j]))
                      => MergedPaths[MapIndex(MergedPaths, key)].value
                             = TargetsIn(MergedConfigs[i], key)

\* The parent maps @/* to ./*, its first reference maps @/* to
\* ./components/* and its second reference is unreadable: the import of
\* ./Icon in src/components/Button.tsx is reported with @/Icon.
C16_Witness ==
    /\ manualPaths = Undefined
    /\ HasReferences
    /\ fs.tsconfig.paths = Obj(<<Entry("@/*", "./*")>>)
    /\ fs.tsconfig.references.entries =
          <<Tsconfig(Undefined, Obj(<<Entry("@/*", "./components/*")>>),
                     Undefined),
            Malformed>>
    /\ pathMappings = <<Entry("@/*", "./components/*")>>
    /\ Len(file) = 1
    /\ IsImportOf(file[1], "./Icon")
    /\ Len(reports) = 1
    /\ FixedPath(reports[1]) = CodeUnits("@/Icon")

\* What the project config yields: nothing when it is absent or unreadable.
ProjectYield == IF fs.tsconfig.state = "json" THEN MergedPaths ELSE <<>>

\* What the i-th bundler config yields, in the order .js, .ts, .mjs, .mts.
ViteYield(i) ==
    IF fs.vite[i].state = "text"
    THEN ViteAliases(<<>>, fs.vite[i].aliases)
    ELSE <<>>

\* C17: the mapping is the paths option if given; else what the project
\* config yields if that has an entry; else what the first bundler config
\* yielding an alias yields; else empty.  An absent or unreadable file is
\* passed over without an error, and with an empty mapping neither pass
\* reports anything.
C17_FallbackChain ==
    /\ manualPaths # Undefined => pathMappings = manualPaths.entries
    /\ (manualPaths = Undefined /\ ProjectYield # <<>>)
          => pathMappings = ProjectYield
    /\ (manualPaths = Undefined /\ ProjectYield = <<>>)
          => /\ \A i \in 1..Len(fs.vite) :
                   (/\ ViteYield(i) # <<>>
                    /\ \A j \in 1..(i - 1) : ViteYield(j) = <<>>)
                       => pathMappings = ViteYield(i)
             /\ (\A i \in 1..Len(fs.vite) : ViteYield(i) = <<>>)
                   => pathMappings = <<>>
    /\ pathMappings = <<>> => (reports = <<>> /\ reports2 = <<>>)
    /\ phase # "crashed"

\* No paths option, an unreadable tsconfig.json, no vite.config.js, a
\* vite.config.ts without an alias, then configs with '@components' and '~':
\* the import of ./Icon is reported with @components/Icon.
C17_Witness ==
    /\ manualPaths = Undefined
    /\ fs.tsconfig = Malformed
    /\ fs.vite[1] = Missing
    /\ fs.vite[2] = ViteConfig(<<>>)
    /\ ViteYield(3) = <<Entry("@components/*", "./components/*")>>
    /\ ViteYield(4) # <<>>
    /\ Len(file) = 1
    /\ IsImportOf(file[1], "./Icon")
    /\ Len(reports) = 1
    /\ FixedPath(reports[1]) = CodeUnits("@components/Icon")

----------------------------------------------------------------------------
(* Properties of no-namespace-import: the Map of default imports *)

\* C19: an import info is marked as used as a namespace exactly when it has
\* recorded a property name; every summary report then carries a fix that
\* replaces the declaration by a named import of at least one name, never
\* one that removes the declaration.
C19_UsedIffPropertyRecorded ==
    /\ \A imp \in ImportInfos :
          imp.isUsedAsNamespace <=> imp.namespacedProperties # <<>>
    /\ \A r \in 1..Len(reports) : IsSummary(reports[r]) =>
          /\ reports[r].fix.op = "replaceText"
          /\ Parse(reports[r].fix.text).specifiers # <<>>

\* A declaration with the default specifier alone, whose named imports are
\* none, is reported: its fix is `import { map } from "react";`.
C19_Witness ==
    /\ Done
    /\ \E r \in 1..Len(reports) :
          /\ IsSummary(reports[r])
          /\ Len(file[reports[r].node].specifiers) = 1
          /\ reports[r].fix.text =
                <<"import", "{", "map", "}", "from", "react", ";">>

\* The sites after its declaration where an import info's binding is
\* accessed.
LaterSites(imp) == AccessSites(imp.localName, imp.node)

\* C20: the evidence of an import info is what is accessed on its binding
\* after its declaration; every inline report is for an access after the
\* declaration of its binding; at the end of the traversal an import has a
\* summary report exactly when its binding is accessed after its
\* declaration.  An access visited before the declaration counts nowhere.
C20_EarlierAccessesCountNowhere ==
    /\ \A imp \in ImportInfos :
          /\ imp.namespacedProperties
                = NewSet(PropsInOrder(LaterSites(imp), Len(file)))
          /\ Done =>
                ((\E r \in 1..Len(reports) :
                     IsSummary(reports[r]) /\ reports[r].node = imp.node)
                 <=> LaterSites(imp) # {})
    /\ \A r \in 1..Len(reports) : IsInline(reports[r]) =>
          \E imp \in ImportInfos :
              /\ imp.localName = reports[r].data.objectName
              /\ imp.node < reports[r].node

\* React.map is visited, then `import React from "react"`: at the end the
\* import is recorded without evidence and nothing is reported.
C20_Witness ==
    /\ Done
    /\ Len(file) = 2
    /\ file[1] = MemberNode("Identifier", "React", "Identifier", "map")
    /\ file[2] = ImportNode("react", "value", <<DefaultSpec("React")>>)
    /\ \E imp \in ImportInfos :
          imp.node = 2 /\ ~imp.isUsedAsNamespace /\ imp.namespacedProperties = <<>>
    /\ reports = <<>>

----------------------------------------------------------------------------
(* Properties of enforce-path-alias: the choice among matching patterns *)

\* The patterns, by position, whose target path the resolved target of a
\* report starts with.
MatchingPatterns(report) ==
    LET patterns == aliasPatterns
        target == <<SLASH>> \o JoinPath(TargetOf(report))
    IN  {k \in 1..Len(patterns) : StartsWith(target, patterns[k].targetPath)}

\* C21: the alias a report suggests is built from the first pattern, in the
\* order of the mapping, whose target path matches the resolved target,
\* whether or not a later pattern matches with a longer target path.
C21_FirstMatchingPatternChosen ==
    \A r \in 1..Len(reports) :
        LET matching == MatchingPatterns(reports[r])
            patterns == aliasPatterns
            target == <<SLASH>> \o JoinPath(TargetOf(reports[r]))
        IN  /\ matching # {}
            /\ \A k \in matching :
                  (\A j \in matching : k <= j)
                      => reports[r].message.alias =
                            patterns[k].alias \o <<SLASH>> \o
                            pathRelative(patterns[k].targetPath, target)

\* With @/* listed before @components/* under base ./src, the import of
\* ./Icon in src/components/Button.tsx matches both patterns and is
\* rewritten to @/components/Icon.
C21_Witness ==
    /\ pathMappings = <<Entry("@/*", "./*"),
                        Entry("@components/*", "./components/*")>>
    /\ finalBaseUrl = CodeUnits("./src")
    /\ Len(file) = 1
    /\ IsImportOf(file[1], "./Icon")
    /\ Len(reports) = 1
    /\ MatchingPatterns(reports[1]) = {1, 2}
    /\ FixedPath(reports[1]) = CodeUnits("@/components/Icon")

====
